---- MODULE Spec2Model ----
(***************************************************************************)
(* A model of the dump/restore engine of Sql-backup.                       *)
(*                                                                         *)
(*   restore_data (src/restore/restore_data.py) with its two handlers,     *)
(*   MySQLBackupRestore and PostgresBackupRestore, is the machine          *)
(*   SpecRestore; MySQLBackup.backup and PostgresBackup.backup are the     *)
(*   machine SpecBackup.                                                   *)
(*                                                                         *)
(* Text is a sequence of one-character strings; a statement list is a      *)
(* sequence of texts.  The database engine is modelled by what the code    *)
(* asks of it: a catalog of database names, a connection with a commit     *)
(* mode, and statements that either execute or raise a driver fault.       *)
(***************************************************************************)
EXTENDS Integers, Sequences, FiniteSets, TLC

\* ------------------------------------------------------------------ bounds

\* The longest statement list a script file is written from.
MaxStmts == 3

\* ------------------------------------------------------------- script text

\* The statement terminator the script loader splits on.
Terminator == ";"

\* Characters str.strip() removes.
Whitespace == {" "}

\* The fragments script files are written from: empty, whitespace only,
\* and two different statements.
Fragments == { <<>>, <<" ">>, <<"a">>, <<"b">> }

\* The statement lists a script file is written from.
StmtLists == UNION { [1..n -> Fragments] : n \in 1..MaxStmts }

RECURSIVE JoinWith(_, _)
\* sep.join(parts) of Python, on texts.
JoinWith(parts, sep) ==
    IF parts = <<>> THEN <<>>
    ELSE IF Len(parts) = 1 THEN parts[1]
    ELSE parts[1] \o sep \o JoinWith(Tail(parts), sep)

\* The text of a script file: each statement followed by the terminator
\* when terminated, the statements separated by it otherwise.
ScriptText(parts, terminated) ==
    IF terminated THEN JoinWith(parts, <<Terminator>>) \o <<Terminator>>
    ELSE JoinWith(parts, <<Terminator>>)

\* The least index of the terminator in a text, 0 when there is none.
FirstTerminator(text) ==
    IF \E i \in 1..Len(text) : text[i] = Terminator
    THEN CHOOSE i \in 1..Len(text) :
            /\ text[i] = Terminator
            /\ \A j \in 1..(i - 1) : text[j] # Terminator
    ELSE 0

RECURSIVE Split(_)
\* str.split(';'): one fragment more than there are terminators.
Split(text) ==
    LET k == FirstTerminator(text)
    IN  IF k = 0 THEN <<text>>
        ELSE <<SubSeq(text, 1, k - 1)>> \o Split(SubSeq(text, k + 1, Len(text)))

\* A slice that drops nothing.
DropNothing(s) == s

\* The slice [:-1]: all but the last element.
DropLast(s) == IF s = <<>> THEN <<>> ELSE SubSeq(s, 1, Len(s) - 1)

\* read_sql_commands_from_file, the same in both handlers.
ReadSqlCommands(text) == DropLast(Split(text))

RECURSIVE LStrip(_)
LStrip(s) ==
    IF s # <<>> /\ s[1] \in Whitespace THEN LStrip(Tail(s)) ELSE s

RECURSIVE RStrip(_)
RStrip(s) ==
    IF s # <<>> /\ s[Len(s)] \in Whitespace
    THEN RStrip(SubSeq(s, 1, Len(s) - 1)) ELSE s

\* str.strip()
Strip(s) == RStrip(LStrip(s))

\* ------------------------------------------------------------ the engine

\* Database names: one plain, one holding the LIKE wildcard "_".
DbNames == { <<"d", "b">>, <<"d", "_">> }

\* No database selected on a connection.
NoDb == <<>>

\* The administrative database the Postgres handler connects to first.
AdminDb == <<"p", "o", "s", "t", "g", "r", "e", "s">>

RECURSIVE LikeMatch(_, _)
\* SQL's LIKE: "_" matches one character, "%" any run of characters.
LikeMatch(pat, s) ==
    IF pat = <<>> THEN s = <<>>
    ELSE IF pat[1] = "%"
         THEN \/ LikeMatch(Tail(pat), s)
              \/ s # <<>> /\ LikeMatch(pat, Tail(s))
         ELSE /\ s # <<>>
              /\ (pat[1] = "_" \/ pat[1] = s[1])
              /\ LikeMatch(Tail(pat), Tail(s))

\* ------------------------------------------------------------------ state

VARIABLES
    \* main's arguments
    db_type,        \* the engine family asked for
    \* restore_data's arguments and the file it reads
    db_name,        \* the target database
    script,         \* the statement list the file was written from
    terminated,     \* whether the file ends with the terminator
    file_text,      \* the file's text
    \* the engine
    databases,      \* the catalog: the names of the databases that exist
    durable,        \* the statements committed in the target database
    pending,        \* the statements executed and not yet committed
    \* the restore handler
    r_pc,           \* the position in restore_data
    conn,           \* self.conn: [state, db, autocommit]
    sql_commands,   \* the list read_sql_commands_from_file returned
    r_i,            \* the index of the loop of restore()
    raised,         \* the exception that left restore_data, "none" if none
    log,            \* what was sent to the engine, in order
    rerun           \* whether this is the second invocation

restore_vars == << db_name, script, terminated, file_text, databases,
                   durable, pending, r_pc, conn, sql_commands, r_i, raised,
                   log, rerun >>

VARIABLES
    \* BackupManager.backup's arguments
    backup_type,    \* 'structure', 'data' or 'structure_data'
    tables,         \* the table filter: [given, list]
    include_permissions,
    \* the database that is backed up
    catalog,        \* its tables and views, in catalog retrieval order
    db_sequences,   \* its sequences
    db_types,       \* its enum types
    row_counts,     \* the number of rows each SELECT * returned, by table
    \* the backup component
    b_pc,           \* the position in BackupManager and in backup()
    b_i,            \* the index of the running loop over all_tables
    b_conn,         \* the connection of the backup instance
    all_tables,     \* the targets: names (Postgres), names with kinds (MySQL)
    include_sequences_and_types,
    sequences,
    user_defined_types,
    foreign_keys_to_add,
    backup_sql,     \* the Postgres artifact: its statements, in order
    backup_data,    \* the MySQL artifact: [keys, vals], keys in insertion order
    header_written,
    b_raised        \* the exception that left the backup, "none" if none

backup_inputs == << backup_type, tables, include_permissions, catalog,
                    db_sequences, db_types >>

backup_vars == << backup_inputs, row_counts, b_pc, b_i, b_conn, all_tables,
                  include_sequences_and_types, sequences, user_defined_types,
                  foreign_keys_to_add, backup_sql, backup_data, header_written,
                  b_raised >>

VARIABLES
    \* the value encoder of a family: format_value, _format_value
    value,          \* the value of a row it is handed: [type, text, date, time]
    literal,        \* the literal it returned, as characters
    e_pc            \* the position: "idle", "value" or "encoded"

encoder_vars == << value, literal, e_pc >>

vars == << db_type, restore_vars, backup_vars, encoder_vars >>

\* What a restore leaves alone: the backup and the encoder.
other_vars == << backup_vars, encoder_vars >>

\* The elements of a sequence.
Range(q) == { q[j] : j \in 1..Len(q) }

\* The sequences over S in which nothing occurs twice.
NoDupSeqs(S) ==
    UNION { { q \in [1..n -> S] : \A j, k \in 1..n : q[j] = q[k] => j = k } :
            n \in 0..Cardinality(S) }

\* An empty Python dict, kept as its keys in insertion order and its values.
EmptyDict == [ keys |-> <<>>, vals |-> <<>> ]

\* No table filter: tables is None.
NoFilter == [ given |-> FALSE, list |-> <<>> ]

\* A value of a row: its Python type, the text of a str, the calendar date
\* and the time of day of a date or a datetime.
Value(type, text, date, time) ==
    [ type |-> type, text |-> text, date |-> date, time |-> time ]

\* The encoder while no row is being written.
EncoderIdle ==
    /\ value = Value("NoneType", <<>>, "", "")
    /\ literal = <<>>
    /\ e_pc = "idle"

\* The backup component before main has asked for a backup.
BackupIdle ==
    /\ backup_type = "structure"
    /\ tables = NoFilter
    /\ include_permissions = FALSE
    /\ catalog = <<>>
    /\ db_sequences = <<>>
    /\ db_types = <<>>
    /\ row_counts = <<>>
    /\ b_pc = "idle"
    /\ b_i = 0
    /\ b_conn = "none"
    /\ all_tables = <<>>
    /\ include_sequences_and_types = FALSE
    /\ sequences = <<>>
    /\ user_defined_types = <<>>
    /\ foreign_keys_to_add = <<>>
    /\ backup_sql = <<>>
    /\ backup_data = EmptyDict
    /\ header_written = FALSE
    /\ b_raised = "none"

\* The restore component before main has asked for a restore.
RestoreIdle ==
    /\ db_name = NoDb
    /\ script = <<>>
    /\ terminated = FALSE
    /\ file_text = <<>>
    /\ databases = {}
    /\ durable = <<>>
    /\ pending = <<>>
    /\ r_pc = "idle"
    /\ conn = [ state |-> "none", db |-> NoDb, autocommit |-> FALSE ]
    /\ sql_commands = <<>>
    /\ r_i = 0
    /\ raised = "none"
    /\ log = <<>>
    /\ rerun = FALSE

\* The engine families restore_data is called with; the last is unsupported.
DbTypes == { "mysql", "postgres", "sqlite" }

NoConn == [ state |-> "none", db |-> NoDb, autocommit |-> FALSE ]

\* One entry of the log: the operation, the index in sql_commands and the
\* text of the statement sent (0 and empty for anything but a script
\* statement), whether it succeeded, and the invocation it belongs to.
Entry(op, idx, ok) ==
    [ op |-> op, idx |-> idx,
      stmt |-> IF idx = 0 THEN <<>> ELSE sql_commands[idx],
      ok |-> ok, rerun |-> rerun ]

InitRestore ==
    /\ BackupIdle
    /\ EncoderIdle
    /\ db_type \in DbTypes
    /\ db_name \in DbNames
    /\ script \in StmtLists
    /\ terminated \in BOOLEAN
    /\ file_text = ScriptText(script, terminated)
    /\ databases \in SUBSET DbNames
    /\ durable = <<>>
    /\ pending = <<>>
    /\ r_pc = "start"
    /\ conn = NoConn
    /\ sql_commands = <<>>
    /\ r_i = 0
    /\ raised = "none"
    /\ log = <<>>
    /\ rerun = FALSE

inputs == << db_type, db_name, script, terminated, file_text >>

\* An exception leaves restore_data: nothing after the raise runs.
Raise(exc) ==
    /\ raised' = exc
    /\ r_pc' = "raised"

\* cursor.execute(command) of a script statement: it succeeds, and takes
\* effect in the commit mode of the connection, or the driver raises.
Execute(idx, ok) ==
    /\ log' = Append(log, Entry("execute", idx, ok))
    /\ IF ~ok THEN UNCHANGED << durable, pending >>
       ELSE IF conn.autocommit
            THEN /\ durable' = Append(durable, sql_commands[idx])
                 /\ UNCHANGED pending
            ELSE /\ pending' = Append(pending, sql_commands[idx])
                 /\ UNCHANGED durable

\* create_database_if_not_exists of both handlers: the catalog lookup, and
\* CREATE DATABASE when it found nothing. The engine raises a fault when
\* the name is taken.
CreateDatabaseIfNotExists(exists, next) ==
    IF exists
    THEN /\ log' = Append(log, Entry("lookup", 0, TRUE))
         /\ r_pc' = next
         /\ UNCHANGED << databases, raised >>
    ELSE IF db_name \in databases
    THEN /\ log' = log \o << Entry("lookup", 0, TRUE),
                             Entry("create_database", 0, FALSE) >>
         /\ Raise("DriverError")
         /\ UNCHANGED databases
    ELSE /\ log' = log \o << Entry("lookup", 0, TRUE),
                             Entry("create_database", 0, TRUE) >>
         /\ databases' = databases \cup { db_name }
         /\ r_pc' = next
         /\ UNCHANGED raised

\* --------------------------------------------------- restore_data: dispatch

\* restore_data picks the handler, or raises ValueError.
RestoreDispatch ==
    /\ r_pc = "start"
    /\ IF db_type = "mysql" THEN r_pc' = "mysql_connect" /\ UNCHANGED raised
       ELSE IF db_type = "postgres" THEN r_pc' = "pg_connect" /\ UNCHANGED raised
       ELSE Raise("ValueError")
    /\ UNCHANGED << other_vars, inputs, databases, durable, pending, conn, sql_commands,
                    r_i, log, rerun >>

\* ------------------------------------------------------ MySQLBackupRestore

\* pymysql.connect is called without autocommit: the driver's default.
MySQLAutocommit == FALSE

\* __init__: pymysql.connect to the server, no database selected.
MySQLConnect ==
    /\ r_pc = "mysql_connect"
    /\ \E ok \in BOOLEAN :
         /\ log' = Append(log, Entry("connect", 0, ok))
         /\ IF ok
            THEN /\ conn' = [ state |-> "open", db |-> NoDb,
                              autocommit |-> MySQLAutocommit ]
                 /\ r_pc' = "mysql_ensure"
                 /\ UNCHANGED raised
            ELSE /\ Raise("DatabaseConnectionError")
                 /\ UNCHANGED conn
    /\ UNCHANGED << other_vars, inputs, databases, durable, pending, sql_commands, r_i,
                    rerun >>

\* database_exists: SHOW DATABASES LIKE '<db_name>' returns a row.
MySQLDatabaseExists == \E n \in databases : LikeMatch(db_name, n)

\* create_database_if_not_exists, called from __init__.
MySQLCreateDatabaseIfNotExists ==
    /\ r_pc = "mysql_ensure"
    /\ CreateDatabaseIfNotExists(MySQLDatabaseExists, "mysql_select_db")
    /\ UNCHANGED << other_vars, inputs, durable, pending, conn, sql_commands, r_i, rerun >>

\* __init__ without the switch to the target database.
MySQLSelectDbSkipped ==
    /\ r_pc = "mysql_select_db"
    /\ r_pc' = "read"
    /\ UNCHANGED << other_vars, inputs, databases, durable, pending, conn, sql_commands,
                    r_i, raised, log, rerun >>

\* __init__: conn.select_db(db_name); an unknown database is a driver fault.
MySQLSelectDb ==
    /\ r_pc = "mysql_select_db"
    /\ IF db_name \in databases
       THEN /\ log' = Append(log, Entry("select_db", 0, TRUE))
            /\ conn' = [ conn EXCEPT !.db = db_name ]
            /\ r_pc' = "read"
            /\ UNCHANGED raised
       ELSE /\ log' = Append(log, Entry("select_db", 0, FALSE))
            /\ Raise("DriverError")
            /\ UNCHANGED conn
    /\ UNCHANGED << other_vars, inputs, databases, durable, pending, sql_commands, r_i,
                    rerun >>

\* restore() with the driver fault swallowed: the loop goes on.
MySQLRestoreSwallow ==
    /\ r_pc = "restore"
    /\ db_type = "mysql"
    /\ r_i <= Len(sql_commands)
    /\ r_i' = r_i + 1
    /\ IF Strip(sql_commands[r_i]) # <<>>
       THEN \E ok \in BOOLEAN : Execute(r_i, ok)
       ELSE UNCHANGED << log, durable, pending >>
    /\ UNCHANGED << other_vars, inputs, databases, conn, sql_commands, rerun, r_pc, raised >>

\* restore() followed by close_connection on every path, as in a finally.
MySQLRestoreThenClose ==
    /\ r_pc = "restore"
    /\ db_type = "mysql"
    /\ r_i <= Len(sql_commands)
    /\ IF Strip(sql_commands[r_i]) # <<>>
       THEN \E ok \in BOOLEAN :
              /\ Execute(r_i, ok)
              /\ IF ok THEN r_i' = r_i + 1 /\ UNCHANGED << r_pc, raised >>
                 ELSE /\ raised' = "RestoreError"
                      /\ r_pc' = "close"
                      /\ UNCHANGED r_i
       ELSE /\ r_i' = r_i + 1
            /\ UNCHANGED << r_pc, raised, log, durable, pending >>
    /\ UNCHANGED << other_vars, inputs, databases, conn, sql_commands, rerun >>

\* restore(): one turn of the loop. A command that strips to nothing is
\* skipped; a driver fault leaves the loop as RestoreError.
MySQLRestore ==
    /\ r_pc = "restore"
    /\ db_type = "mysql"
    /\ r_i <= Len(sql_commands)
    /\ IF Strip(sql_commands[r_i]) # <<>>
       THEN \E ok \in BOOLEAN :
              /\ Execute(r_i, ok)
              /\ IF ok THEN r_i' = r_i + 1 /\ UNCHANGED << r_pc, raised >>
                 ELSE Raise("RestoreError") /\ UNCHANGED r_i
       ELSE /\ r_i' = r_i + 1
            /\ UNCHANGED << r_pc, raised, log, durable, pending >>
    /\ UNCHANGED << other_vars, inputs, databases, conn, sql_commands, rerun >>

\* close_connection: commit, then close the cursor and the connection.
MySQLCloseConnection ==
    /\ r_pc = "close"
    /\ db_type = "mysql"
    /\ log' = log \o << Entry("commit", 0, TRUE), Entry("cursor_close", 0, TRUE),
                        Entry("close", 0, TRUE) >>
    /\ durable' = durable \o pending
    /\ pending' = <<>>
    /\ conn' = [ conn EXCEPT !.state = "closed" ]
    /\ r_pc' = "done"
    /\ UNCHANGED << other_vars, inputs, databases, sql_commands, r_i, raised, rerun >>

\* --------------------------------------------------- PostgresBackupRestore

\* The connections left in the driver's default commit mode.
PostgresAutocommitOff == FALSE

\* conn.autocommit = True, set on both connections of __init__.
PostgresAutocommit == TRUE

\* __init__: psycopg2.connect to the administrative database.
PostgresConnect ==
    /\ r_pc = "pg_connect"
    /\ \E ok \in BOOLEAN :
         /\ log' = Append(log, Entry("connect", 0, ok))
         /\ IF ok
            THEN /\ conn' = [ state |-> "open", db |-> AdminDb,
                              autocommit |-> PostgresAutocommit ]
                 /\ r_pc' = "pg_exists"
                 /\ UNCHANGED raised
            ELSE /\ Raise("DriverError")
                 /\ UNCHANGED conn
    /\ UNCHANGED << other_vars, inputs, databases, durable, pending, sql_commands, r_i,
                    rerun >>

\* A lookup that never finds the database.
DatabaseExistsNever == FALSE

\* database_exists: SELECT 1 FROM pg_database WHERE datname='<db_name>'.
PostgresDatabaseExists == db_name \in databases

\* __init__ calls database_exists once and drops the answer.
PostgresCheckExists ==
    /\ r_pc = "pg_exists"
    /\ log' = Append(log, Entry("lookup", 0, TRUE))
    /\ r_pc' = "pg_ensure"
    /\ UNCHANGED << other_vars, inputs, databases, durable, pending, conn, sql_commands,
                    r_i, raised, rerun >>

\* create_database_if_not_exists, called from __init__.
PostgresCreateDatabaseIfNotExists ==
    /\ r_pc = "pg_ensure"
    /\ CreateDatabaseIfNotExists(PostgresDatabaseExists, "pg_close_admin")
    /\ UNCHANGED << other_vars, inputs, durable, pending, conn, sql_commands, r_i, rerun >>

\* __init__: close_connection on the administrative connection.
PostgresCloseAdmin ==
    /\ r_pc = "pg_close_admin"
    /\ log' = log \o << Entry("cursor_close", 0, TRUE), Entry("close", 0, TRUE) >>
    /\ conn' = [ conn EXCEPT !.state = "closed" ]
    /\ r_pc' = "pg_connect_target"
    /\ UNCHANGED << other_vars, inputs, databases, durable, pending, sql_commands, r_i,
                    raised, rerun >>

\* __init__: psycopg2.connect to the target database.
PostgresConnectTarget ==
    /\ r_pc = "pg_connect_target"
    /\ \E fault \in BOOLEAN :
         LET ok == ~fault /\ db_name \in databases
         IN  /\ log' = Append(log, Entry("connect", 0, ok))
             /\ IF ok
                THEN /\ conn' = [ state |-> "open", db |-> db_name,
                                  autocommit |-> PostgresAutocommit ]
                     /\ r_pc' = "read"
                     /\ UNCHANGED raised
                ELSE /\ Raise("DriverError")
                     /\ UNCHANGED conn
    /\ UNCHANGED << other_vars, inputs, databases, durable, pending, sql_commands, r_i,
                    rerun >>

\* restore(): one turn of the loop. Every command is executed; a driver
\* fault leaves the loop as it is.
PostgresRestore ==
    /\ r_pc = "restore"
    /\ db_type = "postgres"
    /\ r_i <= Len(sql_commands)
    /\ \E ok \in BOOLEAN :
         /\ Execute(r_i, ok)
         /\ IF ok THEN r_i' = r_i + 1 /\ UNCHANGED << r_pc, raised >>
            ELSE Raise("DriverError") /\ UNCHANGED r_i
    /\ UNCHANGED << other_vars, inputs, databases, conn, sql_commands, rerun >>

\* close_connection: close the cursor and the connection.
PostgresCloseConnection ==
    /\ r_pc = "close"
    /\ db_type = "postgres"
    /\ log' = log \o << Entry("cursor_close", 0, TRUE), Entry("close", 0, TRUE) >>
    /\ pending' = <<>>
    /\ conn' = [ conn EXCEPT !.state = "closed" ]
    /\ r_pc' = "done"
    /\ UNCHANGED << other_vars, inputs, databases, durable, sql_commands, r_i, raised,
                    rerun >>

\* ------------------------------------------------ restore_data: the script

\* restore_data: sql_commands = read_sql_commands_from_file(file_path).
ReadSqlCommandsFromFile ==
    /\ r_pc = "read"
    /\ sql_commands' = ReadSqlCommands(file_text)
    /\ r_i' = 1
    /\ r_pc' = "restore"
    /\ UNCHANGED << other_vars, inputs, databases, durable, pending, conn, raised, log,
                    rerun >>

\* restore() returns: the loop is over.
RestoreReturn ==
    /\ r_pc = "restore"
    /\ r_i > Len(sql_commands)
    /\ r_pc' = "close"
    /\ UNCHANGED << other_vars, inputs, databases, durable, pending, conn, sql_commands,
                    r_i, raised, log, rerun >>

\* main runs restore_data again, with the same arguments, on the same
\* engine. What the first run left uncommitted is gone with its connection.
RestoreAgain ==
    /\ r_pc \in { "done", "raised" }
    /\ ~rerun
    /\ rerun' = TRUE
    /\ r_pc' = "start"
    /\ conn' = NoConn
    /\ pending' = <<>>
    /\ sql_commands' = <<>>
    /\ r_i' = 0
    /\ raised' = "none"
    /\ UNCHANGED << other_vars, inputs, databases, durable, log >>

NextRestore ==
    \/ RestoreDispatch
    \/ MySQLConnect
    \/ MySQLCreateDatabaseIfNotExists
    \/ MySQLSelectDb
    \/ MySQLRestore
    \/ MySQLCloseConnection
    \/ PostgresConnect
    \/ PostgresCheckExists
    \/ PostgresCreateDatabaseIfNotExists
    \/ PostgresCloseAdmin
    \/ PostgresConnectTarget
    \/ PostgresRestore
    \/ PostgresCloseConnection
    \/ ReadSqlCommandsFromFile
    \/ RestoreReturn
    \/ RestoreAgain

SpecRestore == InitRestore /\ [][NextRestore]_vars

\* ================================================================ backup

\* The tables and views of the databases that are backed up; the second
\* table bears the name of a reserved key of the MySQL artifact.
TableNames == { "t1", "footer", "v1" }

\* information_schema.tables.table_type of an object.
KindOf(t) == IF t = "v1" THEN "VIEW" ELSE "BASE TABLE"

\* What the catalog holds: any of the objects, in any retrieval order.
Catalogs == NoDupSeqs(TableNames)

\* The table filters: none, or an explicit list that leaves an object out.
Filters ==
    { NoFilter } \cup
    { [ given |-> TRUE, list |-> l ] :
        l \in { q \in NoDupSeqs(TableNames) :
                  1 <= Len(q) /\ Len(q) < Cardinality(TableNames) } }

BackupTypes == { "structure", "data", "structure_data" }

\* The rows a SELECT * can return, counted.
RowCounts == { 0, 2 }

\* The foreign keys get_foreign_keys can return for a table.
ForeignKeyChoices(t) ==
    { <<>>,
      << [ table |-> t, ref |-> "t1" ] >>,
      << [ table |-> t, ref |-> "t1" ], [ table |-> t, ref |-> "footer" ] >> }

\* The grant rows the permission queries can return, counted.
GrantCounts == { 0, 1 }

\* One statement of an artifact: its kind, the object it is about, the
\* table a foreign key refers to, and the number of value tuples or rows.
Stmt(kind, name, ref, n) == [ kind |-> kind, name |-> name, ref |-> ref, n |-> n ]

\* d[k] = v on a Python dict: a new key goes last, an old one keeps its place.
DictSet(d, k, v) ==
    [ keys |-> IF k \in Range(d.keys) THEN d.keys ELSE Append(d.keys, k),
      vals |-> [ x \in (DOMAIN d.vals) \cup { k } |->
                   IF x = k THEN v ELSE d.vals[x] ] ]

RECURSIVE Concat(_)
\* The concatenation of a sequence of sequences.
Concat(qs) == IF qs = <<>> THEN <<>> ELSE qs[1] \o Concat(Tail(qs))

InitBackup ==
    /\ db_type \in DbTypes
    /\ backup_type \in BackupTypes
    /\ tables \in Filters
    /\ include_permissions \in BOOLEAN
    /\ catalog \in Catalogs
    /\ db_sequences \in IF db_type = "postgres" THEN { <<>>, << "s1" >> } ELSE { <<>> }
    /\ db_types \in IF db_type = "postgres" THEN { <<>>, << "e1" >> } ELSE { <<>> }
    /\ row_counts = <<>>
    /\ b_pc = "init"
    /\ b_i = 0
    /\ b_conn = "none"
    /\ all_tables = <<>>
    /\ include_sequences_and_types = FALSE
    /\ sequences = <<>>
    /\ user_defined_types = <<>>
    /\ foreign_keys_to_add = <<>>
    /\ backup_sql = <<>>
    /\ backup_data = EmptyDict
    /\ header_written = FALSE
    /\ b_raised = "none"
    /\ RestoreIdle
    /\ EncoderIdle

\* An exception leaves the backup: nothing after the raise runs.
BackupRaise(exc) ==
    /\ b_raised' = exc
    /\ b_pc' = "raised"

\* ---------------------------------------------------------- BackupManager

\* BackupManager.__init__: the backup instance of the family is built, and
\* connects; any other family builds none and raises nothing.
BackupManagerInit ==
    /\ b_pc = "init"
    /\ IF db_type \in { "mysql", "postgres" }
       THEN \E ok \in BOOLEAN :
              IF ok
              THEN /\ b_conn' = "open"
                   /\ b_pc' = "backup"
                   /\ UNCHANGED b_raised
              ELSE /\ BackupRaise(IF db_type = "mysql"
                                  THEN "DatabaseConnectionError"
                                  ELSE "DriverError")
                   /\ UNCHANGED b_conn
       ELSE /\ b_pc' = "backup"
            /\ UNCHANGED << b_conn, b_raised >>
    /\ UNCHANGED << db_type, restore_vars, encoder_vars, backup_inputs, row_counts, b_i,
                    all_tables, include_sequences_and_types, sequences,
                    user_defined_types, foreign_keys_to_add, backup_sql,
                    backup_data, header_written >>

\* BackupManager.backup: hands over to the backup instance; without one the
\* attribute is missing.
BackupManagerBackup ==
    /\ b_pc = "backup"
    /\ IF db_type = "mysql" THEN b_pc' = "mysql_list" /\ UNCHANGED b_raised
       ELSE IF db_type = "postgres" THEN b_pc' = "pg_list" /\ UNCHANGED b_raised
       ELSE BackupRaise("AttributeError")
    /\ UNCHANGED << db_type, restore_vars, encoder_vars, backup_inputs, row_counts, b_i,
                    b_conn, all_tables, include_sequences_and_types, sequences,
                    user_defined_types, foreign_keys_to_add, backup_sql,
                    backup_data, header_written >>

\* --------------------------------------------------------- PostgresBackup

\* The fixed preamble of the Postgres artifact.
PostgresPreamble == << Stmt("SET", "", "", 0) >>

\* create_type_statement
CreateTypeStatement(type_name) ==
    << Stmt("DROP TYPE", type_name, "", 0), Stmt("CREATE TYPE", type_name, "", 0) >>

\* create_sequence_statement
CreateSequenceStatement(sequence) ==
    << Stmt("DROP SEQUENCE", sequence, "", 0),
       Stmt("CREATE SEQUENCE", sequence, "", 0) >>

\* create_table_statement
CreateTableStatement(table) ==
    << Stmt("DROP TABLE", table, "", 0), Stmt("CREATE TABLE", table, "", 0) >>

\* create_insert_statement: one INSERT with a value tuple per row.
CreateInsertStatement(table, rows) == << Stmt("INSERT", table, "", rows) >>

\* create_foreign_key_statement: one ALTER TABLE per foreign key.
CreateForeignKeyStatement(foreign_keys) ==
    [ j \in 1..Len(foreign_keys) |->
        Stmt("ADD CONSTRAINT", foreign_keys[j].table, foreign_keys[j].ref, 0) ]

\* create_permission_statements: one GRANT per grant row.
CreatePermissionStatements(table, grants) ==
    [ j \in 1..grants |-> Stmt("GRANT", table, "", 0) ]

\* The steps of backup() leave these alone unless they say otherwise.
PostgresFrame ==
    UNCHANGED << db_type, restore_vars, encoder_vars, backup_inputs, backup_data, header_written >>

\* Sequences and enum types in scope whatever the filter.
IncludeSequencesAndTypesAlways(filter) == TRUE

\* backup(): include_sequences_and_types is set when tables is None.
IncludeSequencesAndTypes(filter) == ~filter.given

\* backup(): the preamble, and the targets: the base tables of the catalog
\* when tables is None, the list as given otherwise.
PostgresListTables ==
    /\ b_pc = "pg_list"
    /\ \E ok \in BOOLEAN :
         IF tables.given \/ ok
         THEN /\ backup_sql' = PostgresPreamble
              /\ all_tables' =
                   IF tables.given THEN tables.list
                   ELSE LET Base(t) == KindOf(t) = "BASE TABLE"
                        IN  SelectSeq(catalog, Base)
              /\ include_sequences_and_types' = IncludeSequencesAndTypes(tables)
              /\ b_pc' = "pg_definitions"
              /\ UNCHANGED b_raised
         ELSE /\ BackupRaise("DriverError")
              /\ UNCHANGED << backup_sql, all_tables, include_sequences_and_types >>
    /\ UNCHANGED << row_counts, b_i, b_conn, sequences, user_defined_types,
                    foreign_keys_to_add >>
    /\ PostgresFrame

\* backup(): the progress total, the column definitions and dependencies of
\* every target, then the sequences and the enum types when no filter is
\* given. Queries only: a fault of the driver leaves backup().
PostgresIntrospect ==
    /\ b_pc = "pg_definitions"
    /\ \E ok \in BOOLEAN :
         IF ok
         THEN /\ sequences' = IF include_sequences_and_types
                              THEN db_sequences ELSE <<>>
              /\ user_defined_types' = IF include_sequences_and_types
                                       THEN db_types ELSE <<>>
              /\ foreign_keys_to_add' = <<>>
              /\ b_pc' = "pg_types"
              /\ UNCHANGED b_raised
         ELSE /\ BackupRaise("DriverError")
              /\ UNCHANGED << sequences, user_defined_types, foreign_keys_to_add >>
    /\ UNCHANGED << row_counts, b_i, b_conn, all_tables,
                    include_sequences_and_types, backup_sql >>
    /\ PostgresFrame

\* Whether backup_type asks for structure.
WantsStructure == backup_type \in { "structure", "structure_data" }

\* Whether backup_type asks for data.
WantsData == backup_type \in { "data", "structure_data" }

\* backup(): the enum types, when structure is asked for and no filter given.
PostgresEmitTypes ==
    /\ b_pc = "pg_types"
    /\ backup_sql' =
         IF WantsStructure /\ include_sequences_and_types
         THEN backup_sql \o
              Concat([ j \in 1..Len(user_defined_types) |->
                         CreateTypeStatement(user_defined_types[j]) ])
         ELSE backup_sql
    /\ b_pc' = "pg_sequences"
    /\ UNCHANGED << row_counts, b_i, b_conn, all_tables,
                    include_sequences_and_types, sequences, user_defined_types,
                    foreign_keys_to_add, b_raised >>
    /\ PostgresFrame

\* backup(): the sequences, under the same condition; each one is looked up
\* in pg_sequences.
PostgresEmitSequences ==
    /\ b_pc = "pg_sequences"
    /\ IF WantsStructure /\ include_sequences_and_types /\ sequences # <<>>
       THEN \E ok \in BOOLEAN :
              IF ok
              THEN /\ backup_sql' = backup_sql \o
                        Concat([ j \in 1..Len(sequences) |->
                                   CreateSequenceStatement(sequences[j]) ])
                   /\ b_pc' = "pg_tables"
                   /\ UNCHANGED b_raised
              ELSE /\ BackupRaise("DriverError")
                   /\ UNCHANGED backup_sql
       ELSE /\ b_pc' = "pg_tables"
            /\ UNCHANGED << backup_sql, b_raised >>
    /\ b_i' = 1
    /\ UNCHANGED << row_counts, b_conn, all_tables, include_sequences_and_types,
                    sequences, user_defined_types, foreign_keys_to_add >>
    /\ PostgresFrame

\* The table loop with the foreign keys of a table emitted right after its
\* CREATE TABLE, and not kept for later.
PostgresEmitTableWithForeignKeys ==
    /\ b_pc = "pg_tables"
    /\ IF WantsStructure /\ b_i <= Len(all_tables)
       THEN LET table == all_tables[b_i]
            IN  \E ok \in BOOLEAN :
                \E foreign_keys \in
                     IF table \in Range(catalog) THEN ForeignKeyChoices(table)
                     ELSE { <<>> } :
                  IF ok
                  THEN /\ backup_sql' = backup_sql \o CreateTableStatement(table)
                                        \o CreateForeignKeyStatement(foreign_keys)
                       /\ b_i' = b_i + 1
                       /\ UNCHANGED << b_pc, b_raised, foreign_keys_to_add >>
                  ELSE /\ foreign_keys = <<>>
                       /\ BackupRaise("DriverError")
                       /\ UNCHANGED << backup_sql, foreign_keys_to_add, b_i >>
       ELSE /\ b_pc' = "pg_data"
            /\ b_i' = 1
            /\ UNCHANGED << backup_sql, foreign_keys_to_add, b_raised >>
    /\ UNCHANGED << row_counts, b_conn, all_tables, include_sequences_and_types,
                    sequences, user_defined_types >>
    /\ PostgresFrame

\* The table loop with the rows of a table selected and its INSERT emitted
\* right after its CREATE TABLE, table by table.
PostgresEmitTableWithData ==
    /\ b_pc = "pg_tables"
    /\ IF WantsStructure /\ b_i <= Len(all_tables)
       THEN LET table == all_tables[b_i]
            IN  \E ok \in BOOLEAN :
                \E foreign_keys \in
                     IF table \in Range(catalog) THEN ForeignKeyChoices(table)
                     ELSE { <<>> } :
                  IF ok
                  THEN /\ backup_sql' = backup_sql \o CreateTableStatement(table)
                                        \o CreateInsertStatement(table, 2)
                       /\ foreign_keys_to_add' =
                            Append(foreign_keys_to_add,
                                   [ table |-> table, foreign_keys |-> foreign_keys ])
                       /\ b_i' = b_i + 1
                       /\ UNCHANGED << b_pc, b_raised >>
                  ELSE /\ foreign_keys = <<>>
                       /\ BackupRaise("DriverError")
                       /\ UNCHANGED << backup_sql, foreign_keys_to_add, b_i >>
       ELSE /\ b_pc' = "pg_data"
            /\ b_i' = 1
            /\ UNCHANGED << backup_sql, foreign_keys_to_add, b_raised >>
    /\ UNCHANGED << row_counts, b_conn, all_tables, include_sequences_and_types,
                    sequences, user_defined_types >>
    /\ PostgresFrame

\* backup(): one turn of the loop that emits the table DDL and keeps the
\* foreign keys of the table for later; past the last target, or when no
\* structure is asked for, the data loop is next.
PostgresEmitTable ==
    /\ b_pc = "pg_tables"
    /\ IF WantsStructure /\ b_i <= Len(all_tables)
       THEN LET table == all_tables[b_i]
            IN  \E ok \in BOOLEAN :
                \E foreign_keys \in
                     IF table \in Range(catalog) THEN ForeignKeyChoices(table)
                     ELSE { <<>> } :
                  IF ok
                  THEN /\ backup_sql' = backup_sql \o CreateTableStatement(table)
                       /\ foreign_keys_to_add' =
                            Append(foreign_keys_to_add,
                                   [ table |-> table, foreign_keys |-> foreign_keys ])
                       /\ b_i' = b_i + 1
                       /\ UNCHANGED << b_pc, b_raised >>
                  ELSE /\ foreign_keys = <<>>
                       /\ BackupRaise("DriverError")
                       /\ UNCHANGED << backup_sql, foreign_keys_to_add, b_i >>
       ELSE /\ b_pc' = "pg_data"
            /\ b_i' = 1
            /\ UNCHANGED << backup_sql, foreign_keys_to_add, b_raised >>
    /\ UNCHANGED << row_counts, b_conn, all_tables, include_sequences_and_types,
                    sequences, user_defined_types >>
    /\ PostgresFrame

\* backup(): one turn of the loop that selects the rows of a target and
\* emits its INSERT when there are any. A target the catalog does not hold
\* cannot be selected from.
PostgresEmitData ==
    /\ b_pc = "pg_data"
    /\ IF WantsData /\ b_i <= Len(all_tables)
       THEN LET table == all_tables[b_i]
            IN  \E ok \in BOOLEAN :
                \E rows \in RowCounts :
                  IF ok /\ table \in Range(catalog)
                  THEN /\ row_counts' =
                            Append(row_counts, [ table |-> table, rows |-> rows ])
                       /\ backup_sql' =
                            IF rows > 0
                            THEN backup_sql \o CreateInsertStatement(table, rows)
                            ELSE backup_sql
                       /\ b_i' = b_i + 1
                       /\ UNCHANGED << b_pc, b_raised >>
                  ELSE /\ rows = 0
                       /\ BackupRaise("DriverError")
                       /\ UNCHANGED << row_counts, backup_sql, b_i >>
       ELSE /\ b_pc' = "pg_fks"
            /\ b_i' = 1
            /\ UNCHANGED << row_counts, backup_sql, b_raised >>
    /\ UNCHANGED << b_conn, all_tables, include_sequences_and_types, sequences,
                    user_defined_types, foreign_keys_to_add >>
    /\ PostgresFrame

\* backup(): the foreign keys kept by the table loop, in its order, when
\* structure is asked for.
PostgresEmitForeignKeys ==
    /\ b_pc = "pg_fks"
    /\ backup_sql' =
         IF WantsStructure
         THEN backup_sql \o
              Concat([ j \in 1..Len(foreign_keys_to_add) |->
                         CreateForeignKeyStatement(foreign_keys_to_add[j].foreign_keys) ])
         ELSE backup_sql
    /\ b_pc' = "pg_permissions"
    /\ b_i' = 1
    /\ UNCHANGED << row_counts, b_conn, all_tables, include_sequences_and_types,
                    sequences, user_defined_types, foreign_keys_to_add, b_raised >>
    /\ PostgresFrame

\* backup(): one turn of the loop that emits the grants of a target, when
\* permissions are asked for.
PostgresEmitPermissions ==
    /\ b_pc = "pg_permissions"
    /\ IF include_permissions /\ b_i <= Len(all_tables)
       THEN LET table == all_tables[b_i]
            IN  \E ok \in BOOLEAN :
                \E grants \in IF table \in Range(catalog) THEN GrantCounts ELSE { 0 } :
                  IF ok
                  THEN /\ backup_sql' =
                            backup_sql \o CreatePermissionStatements(table, grants)
                       /\ b_i' = b_i + 1
                       /\ UNCHANGED << b_pc, b_raised >>
                  ELSE /\ grants = 0
                       /\ BackupRaise("DriverError")
                       /\ UNCHANGED << backup_sql, b_i >>
       ELSE /\ b_pc' = "pg_close"
            /\ UNCHANGED << backup_sql, b_i, b_raised >>
    /\ UNCHANGED << row_counts, b_conn, all_tables, include_sequences_and_types,
                    sequences, user_defined_types, foreign_keys_to_add >>
    /\ PostgresFrame

\* backup(): the cursor and the connection are closed, the script returned.
PostgresBackupClose ==
    /\ b_pc = "pg_close"
    /\ b_conn' = "closed"
    /\ b_pc' = "done"
    /\ UNCHANGED << row_counts, b_i, all_tables, include_sequences_and_types,
                    sequences, user_defined_types, foreign_keys_to_add,
                    backup_sql, b_raised >>
    /\ PostgresFrame

\* ------------------------------------------------------------ MySQLBackup

\* One fragment of the MySQL artifact: the marker a writer routes it by,
\* and the statements it holds.
Fragment(marker, stmts) == [ marker |-> marker, stmts |-> stmts ]

\* _generate_backup_header
GenerateBackupHeader == Fragment("header", << Stmt("SET", "", "", 0) >>)

\* _generate_backup_footer
GenerateBackupFooter == Fragment("footer", << Stmt("SET", "", "", 0) >>)

\* The structure fragment of a table or a view: the DROP, and the statement
\* SHOW CREATE TABLE returned.
StructureFragment(table) ==
    IF KindOf(table) = "VIEW"
    THEN Fragment("Structure for view",
                  << Stmt("DROP VIEW", table, "", 0), Stmt("CREATE VIEW", table, "", 0) >>)
    ELSE Fragment("Table structure",
                  << Stmt("DROP TABLE", table, "", 0), Stmt("CREATE TABLE", table, "", 0) >>)

\* The data fragment of a table: its INSERT between LOCK and UNLOCK.
DataFragment(table, rows) ==
    Fragment("Data for table",
             << Stmt("LOCK TABLES", table, "", 0), Stmt("INSERT", table, "", rows),
                Stmt("UNLOCK TABLES", "", "", 0) >>)

\* The permissions fragment: the rows of SHOW GRANTS FOR CURRENT_USER.
PermissionsFragment(grants) ==
    Fragment("Permissions", [ j \in 1..grants |-> Stmt("GRANT", "", "", 0) ])

\* The steps of backup() leave these alone unless they say otherwise.
MySQLFrame ==
    UNCHANGED << db_type, restore_vars, encoder_vars, backup_inputs, include_sequences_and_types,
                 sequences, user_defined_types, foreign_keys_to_add, backup_sql >>

\* backup(): the targets are the objects of the catalog, those the filter
\* names when one is given.
MySQLListTables ==
    /\ b_pc = "mysql_list"
    /\ \E ok \in BOOLEAN :
         IF ok
         THEN /\ all_tables' =
                   IF tables.given
                   THEN LET Named(t) == t \in Range(tables.list)
                        IN  SelectSeq(catalog, Named)
                   ELSE catalog
              /\ backup_data' = EmptyDict
              /\ header_written' = FALSE
              /\ b_i' = 1
              /\ b_pc' = "mysql_tables"
              /\ UNCHANGED b_raised
         ELSE /\ BackupRaise("BackupError")
              /\ UNCHANGED << all_tables, backup_data, header_written, b_i >>
    /\ UNCHANGED << row_counts, b_conn >>
    /\ MySQLFrame

\* backup(): one turn of the loop over the targets: the header before the
\* first fragment of the first one, the structure, the data of a base table
\* that has rows; the list is stored under the name of the target.
MySQLBackupTable ==
    /\ b_pc = "mysql_tables"
    /\ b_i <= Len(all_tables)
    /\ LET table == all_tables[b_i]
           selects == KindOf(table) = "BASE TABLE" /\ WantsData
           header == IF header_written THEN <<>> ELSE << GenerateBackupHeader >>
           structure == IF WantsStructure THEN << StructureFragment(table) >> ELSE <<>>
       IN  \E ok \in BOOLEAN :
           \E rows \in IF selects THEN RowCounts ELSE { 0 } :
             IF ok
             THEN /\ backup_data' =
                       DictSet(backup_data, table,
                               header \o structure \o
                               IF selects /\ rows > 0
                               THEN << DataFragment(table, rows) >> ELSE <<>>)
                  /\ row_counts' =
                       IF selects
                       THEN Append(row_counts, [ table |-> table, rows |-> rows ])
                       ELSE row_counts
                  /\ header_written' = TRUE
                  /\ b_i' = b_i + 1
                  /\ UNCHANGED << b_pc, b_raised >>
             ELSE /\ WantsStructure \/ selects
                  /\ rows = 0
                  /\ BackupRaise("BackupError")
                  /\ UNCHANGED << backup_data, row_counts, header_written, b_i >>
    /\ UNCHANGED << b_conn, all_tables >>
    /\ MySQLFrame

\* backup(): the grants of the current user, when permissions are asked for.
MySQLBackupPermissions ==
    /\ b_pc = "mysql_tables"
    /\ b_i > Len(all_tables)
    /\ IF include_permissions
       THEN \E ok \in BOOLEAN :
            \E grants \in GrantCounts :
              IF ok
              THEN /\ backup_data' =
                        DictSet(backup_data, "permissions",
                                << PermissionsFragment(grants) >>)
                   /\ b_pc' = "mysql_footer"
                   /\ UNCHANGED b_raised
              ELSE /\ grants = 0
                   /\ BackupRaise("BackupError")
                   /\ UNCHANGED backup_data
       ELSE /\ b_pc' = "mysql_footer"
            /\ UNCHANGED << backup_data, b_raised >>
    /\ UNCHANGED << row_counts, b_i, b_conn, all_tables, header_written >>
    /\ MySQLFrame

\* backup(): the footer when a header was written, then _close_connection.
MySQLBackupFooterAndClose ==
    /\ b_pc = "mysql_footer"
    /\ backup_data' =
         IF header_written
         THEN DictSet(backup_data, "footer", << GenerateBackupFooter >>)
         ELSE backup_data
    /\ b_conn' = "closed"
    /\ b_pc' = "done"
    /\ UNCHANGED << row_counts, b_i, all_tables, header_written, b_raised >>
    /\ MySQLFrame

\* ------------------------------------------------------------- the backup

NextBackup ==
    \/ BackupManagerInit
    \/ BackupManagerBackup
    \/ PostgresListTables
    \/ PostgresIntrospect
    \/ PostgresEmitTypes
    \/ PostgresEmitSequences
    \/ PostgresEmitTable
    \/ PostgresEmitData
    \/ PostgresEmitForeignKeys
    \/ PostgresEmitPermissions
    \/ PostgresBackupClose
    \/ MySQLListTables
    \/ MySQLBackupTable
    \/ MySQLBackupPermissions
    \/ MySQLBackupFooterAndClose

SpecBackup == InitBackup /\ [][NextBackup]_vars

\* save_backup_data: the MySQL artifact written out, the fragment lists in
\* the order of the keys.
MySQLScript ==
    Concat([ j \in 1..Len(backup_data.keys) |->
               LET fragments == backup_data.vals[backup_data.keys[j]]
               IN  Concat([ k \in 1..Len(fragments) |-> fragments[k].stmts ]) ])

\* The statements of the artifact, in emission order.
Artifact == IF db_type = "postgres" THEN backup_sql ELSE MySQLScript

\* ------------------------------------------------------ the value encoders

\* The longest str value that is encoded.
MaxStrLen == 3

\* The characters of the str values: the single quote, and two others.
Alphabet == { "'", "a", "b" }

\* The str values of at most n characters.
Strings(n) == UNION { [1..k -> Alphabet] : k \in 0..n }

\* The name of the end-to-end scenario.
OBrien == << "O", "'", "B", "r", "i", "e", "n" >>

\* The values of a row: None, str, bool, int, date and datetime objects.
Values ==
    { Value("str", text, "", "") : text \in Strings(MaxStrLen) \cup { OBrien } }
        \cup { Value("NoneType", <<>>, "", ""),
               Value("bool", << "True" >>, "", ""),
               Value("bool", << "False" >>, "", ""),
               Value("int", << "4", "2" >>, "", ""),
               Value("date", <<>>, "2024-05-17", "00:00:00"),
               Value("datetime", <<>>, "2024-05-17", "13:45:09") }

\* isinstance(v, cls): bool is a subclass of int, datetime one of date.
IsInstance(v, cls) ==
    \/ v.type = cls
    \/ v.type = "bool" /\ cls = "int"
    \/ v.type = "datetime" /\ cls = "date"

\* value.strftime(format), for the two formats the encoders use; a date
\* object has midnight as its time of day.
Strftime(v, format) ==
    IF format = "%Y-%m-%d" THEN << v.date >> ELSE << v.date, " ", v.time >>

\* str(value)
Str(v) ==
    CASE v.type = "NoneType" -> << "None" >>
      [] v.type = "date" -> << v.date >>
      [] v.type = "datetime" -> << v.date, " ", v.time >>
      [] OTHER -> v.text

\* The text as it is, no quote doubled.
ReplaceNothing(text) == text

RECURSIVE Replace(_)
\* text.replace("'", "''")
Replace(text) ==
    IF text = <<>> THEN <<>>
    ELSE (IF text[1] = "'" THEN << "'", "'" >> ELSE << text[1] >>)
         \o Replace(Tail(text))

\* The text between single quotes.
Quoted(text) == << "'" >> \o text \o << "'" >>

\* format_value of the Postgres family. The lists and memoryviews of the
\* source are not among the values.
FormatValue(v) ==
    IF v.type = "NoneType" THEN << "NULL" >>
    ELSE IF IsInstance(v, "datetime") \/ IsInstance(v, "date")
    THEN IF IsInstance(v, "date")
         THEN Quoted(Strftime(v, "%Y-%m-%d"))
         ELSE Quoted(Strftime(v, "%Y-%m-%d %H:%M:%S"))
    ELSE IF IsInstance(v, "str") THEN Quoted(Replace(v.text))
    ELSE Str(v)

\* _format_value of the MySQL family. The floats and bytes of the source
\* are not among the values.
MySQLFormatValue(v) ==
    IF v.type = "NoneType" THEN << "NULL" >>
    ELSE IF IsInstance(v, "str") THEN Quoted(Replace(v.text))
    ELSE IF IsInstance(v, "bool")
    THEN (IF v.text = << "True" >> THEN << "TRUE" >> ELSE << "FALSE" >>)
    ELSE IF IsInstance(v, "datetime") THEN Quoted(Strftime(v, "%Y-%m-%d %H:%M:%S"))
    ELSE IF IsInstance(v, "int") THEN Str(v)
    ELSE Quoted(Replace(Str(v)))

\* A row value is about to be written by the data step of a backup.
InitEncoder ==
    /\ RestoreIdle
    /\ BackupIdle
    /\ db_type \in { "mysql", "postgres" }
    /\ value \in Values
    /\ literal = <<>>
    /\ e_pc = "value"

\* create_insert_statement: format_value(value) for a value of a row.
PostgresFormatRowValue ==
    /\ e_pc = "value"
    /\ db_type = "postgres"
    /\ literal' = FormatValue(value)
    /\ e_pc' = "encoded"
    /\ UNCHANGED << db_type, restore_vars, backup_vars, value >>

\* MySQLBackup.backup: _format_value(value) for a value of a row.
MySQLFormatRowValue ==
    /\ e_pc = "value"
    /\ db_type = "mysql"
    /\ literal' = MySQLFormatValue(value)
    /\ e_pc' = "encoded"
    /\ UNCHANGED << db_type, restore_vars, backup_vars, value >>

NextEncoder ==
    \/ PostgresFormatRowValue
    \/ MySQLFormatRowValue

SpecEncoder == InitEncoder /\ [][NextEncoder]_vars

\* ------------------------------------------------------------ the program

\* main: a restore or a backup, and within a backup the encoding of a value.
Init == InitRestore \/ InitBackup \/ InitEncoder

Next == NextRestore \/ NextBackup \/ NextEncoder

Spec == Init /\ [][Next]_vars

\* ======================================================== claims: backup

\* The positions of the artifact that hold a statement of the kind.
Positions(kind) == { p \in 1..Len(Artifact) : Artifact[p].kind = kind }

\* C1. In the artifact of a backup of type structure or structure_data
\* every foreign-key ALTER TABLE ... ADD CONSTRAINT statement comes after
\* the CREATE TABLE statement of every table, and the foreign-key
\* statements follow the table order of the CREATE TABLE statements.
C1_ForeignKeysAfterAllCreates ==
    WantsStructure =>
        LET creates == Positions("CREATE TABLE")
            fks == Positions("ADD CONSTRAINT")
        IN  /\ \A p \in fks : \A c \in creates : c < p
            /\ \A p, q \in fks :
                  p < q =>
                     \E cp, cq \in creates :
                        /\ Artifact[cp].name = Artifact[p].name
                        /\ Artifact[cq].name = Artifact[q].name
                        /\ cp <= cq

\* C1 happens: a finished structure_data backup of two tables that both
\* have foreign keys and rows.
C1_Witness ==
    /\ b_pc = "done"
    /\ backup_type = "structure_data"
    /\ Cardinality(Positions("CREATE TABLE")) = 2
    /\ Cardinality(Positions("INSERT")) = 2
    /\ \E p, q \in Positions("ADD CONSTRAINT") :
          p < q /\ Artifact[p].name # Artifact[q].name

\* The kinds of the sequence and the enum-type statements.
SequenceAndTypeKinds ==
    { "DROP SEQUENCE", "CREATE SEQUENCE", "DROP TYPE", "CREATE TYPE" }

\* C2. A backup called with an explicit table list emits no sequence and
\* no enum-type statement, whatever the backup type and the database.
C2_FilterEmitsNoSequencesOrTypes ==
    tables.given =>
        \A p \in 1..Len(Artifact) : Artifact[p].kind \notin SequenceAndTypeKinds

\* C2 happens: a finished structure backup with an explicit table list, of
\* a database that has a sequence and an enum type.
C2_Witness ==
    /\ b_pc = "done"
    /\ tables.given
    /\ WantsStructure
    /\ db_sequences # <<>>
    /\ db_types # <<>>
    /\ Positions("CREATE TABLE") # {}

\* The category of a statement kind, numbered in the order of the steps of
\* a backup; 0 for the pragmas, which belong to no category.
Rank(kind) ==
    CASE kind \in { "DROP TYPE", "CREATE TYPE" } -> 1
      [] kind \in { "DROP SEQUENCE", "CREATE SEQUENCE" } -> 2
      [] kind \in { "DROP TABLE", "CREATE TABLE", "DROP VIEW", "CREATE VIEW" } -> 3
      [] kind \in { "LOCK TABLES", "INSERT", "UNLOCK TABLES" } -> 4
      [] kind = "ADD CONSTRAINT" -> 5
      [] kind = "GRANT" -> 6
      [] OTHER -> 0

\* No statement of an earlier category comes after one of a later category.
InCategoryOrder(stmts) ==
    \A p, q \in 1..Len(stmts) :
        (p < q /\ Rank(stmts[p].kind) > 0 /\ Rank(stmts[q].kind) > 0)
            => Rank(stmts[p].kind) <= Rank(stmts[q].kind)

\* The statements of the fragment list stored under a key of the MySQL
\* artifact.
ListScript(key) ==
    LET fragments == backup_data.vals[key]
    IN  Concat([ k \in 1..Len(fragments) |-> fragments[k].stmts ])

\* C11 as stated. In the artifact of any backup the statement categories
\* appear in the fixed order enum types, sequences, table DDL of all
\* targets, INSERT blocks of all targets, foreign keys, grants.
C11_CategoryOrderAnyBackup == InCategoryOrder(Artifact)

\* C11, amended. The Postgres artifact keeps the fixed category order over
\* the whole script; the MySQL artifact keeps it within the fragment list
\* of each table, the lists of the tables following one another.
C11_CategoryOrder ==
    /\ db_type = "postgres" => InCategoryOrder(backup_sql)
    /\ db_type = "mysql" =>
          \A key \in Range(backup_data.keys) : InCategoryOrder(ListScript(key))

\* C11 happens: a finished Postgres backup that holds a statement of each
\* of the six categories, for two tables.
C11_Witness ==
    /\ b_pc = "done"
    /\ db_type = "postgres"
    /\ \A kind \in { "CREATE TYPE", "CREATE SEQUENCE", "ADD CONSTRAINT", "GRANT" } :
          Positions(kind) # {}
    /\ Cardinality(Positions("CREATE TABLE")) = 2
    /\ Cardinality(Positions("INSERT")) = 2

\* C12. For every backup type and every table filter, in both families, no
\* INSERT is emitted for a target whose catalog kind is a view: every INSERT
\* of the artifact is for a BASE TABLE.
C12_NoInsertForViews ==
    \A p \in Positions("INSERT") : KindOf(Artifact[p].name) = "BASE TABLE"

\* The positions of the artifact that hold a statement of the kind about
\* the table.
PositionsOf(kind, table) ==
    { p \in Positions(kind) : Artifact[p].name = table }

\* C13. In a finished backup, a target whose SELECT * returned no row has
\* its structure DDL when structure is asked for and no INSERT (in the MySQL
\* family no LOCK TABLES either); a target with rows has exactly one INSERT,
\* with one value tuple per row.
C13_ZeroRowsNoInsert ==
    b_pc = "done" =>
        \A j \in 1..Len(row_counts) :
            LET table == row_counts[j].table
                rows == row_counts[j].rows
                inserts == PositionsOf("INSERT", table)
            IN  /\ WantsStructure => PositionsOf("CREATE TABLE", table) # {}
                /\ rows = 0 => /\ inserts = {}
                               /\ PositionsOf("LOCK TABLES", table) = {}
                /\ rows > 0 => /\ Cardinality(inserts) = 1
                               /\ \A p \in inserts : Artifact[p].n = rows

\* The kinds of the statements that make up the structure of a database.
StructureKinds ==
    { "DROP TABLE", "CREATE TABLE", "DROP VIEW", "CREATE VIEW", "ADD CONSTRAINT" }
        \cup SequenceAndTypeKinds

\* C14. The backup type gates what is emitted: 'structure' gives no INSERT;
\* 'data' gives no DROP/CREATE TABLE, no enum-type or sequence statement and
\* no foreign-key ALTER; a finished 'structure_data' backup has the DDL of
\* every target and an INSERT for every base table that has rows.
C14_BackupTypeGates ==
    /\ backup_type = "structure" => Positions("INSERT") = {}
    /\ backup_type = "data" =>
          \A p \in 1..Len(Artifact) : Artifact[p].kind \notin StructureKinds
    /\ (backup_type = "structure_data" /\ b_pc = "done") =>
          /\ \A j \in 1..Len(all_tables) :
                \/ PositionsOf("CREATE TABLE", all_tables[j]) # {}
                \/ PositionsOf("CREATE VIEW", all_tables[j]) # {}
          /\ \A j \in 1..Len(row_counts) :
                (row_counts[j].rows > 0 /\ KindOf(row_counts[j].table) = "BASE TABLE")
                    => PositionsOf("INSERT", row_counts[j].table) # {}

\* The places of the MySQL artifact that hold the pragma header: the key of
\* a fragment list and the position in it.
HeaderPlaces ==
    { << key, k >> \in Range(backup_data.keys) \X (1..3) :
        /\ k <= Len(backup_data.vals[key])
        /\ backup_data.vals[key][k].marker = "header" }

\* C19. In the artifact of a finished MySQL backup the pragma header occurs
\* exactly once, as the first fragment of the list of the first table backed
\* up; the 'footer' key is there exactly when a table was backed up, and the
\* 'permissions' key exactly when include_permissions is true.
C19_HeaderFooterPermissions ==
    (b_pc = "done" /\ db_type = "mysql") =>
        /\ all_tables # <<>> => HeaderPlaces = { << all_tables[1], 1 >> }
        /\ all_tables = <<>> => HeaderPlaces = {}
        /\ "footer" \in Range(backup_data.keys) <=> all_tables # <<>>
        /\ "permissions" \in Range(backup_data.keys) <=> include_permissions

\* The markers of the fragments the table loop puts in the list of a table.
TableMarkers ==
    { "header", "Table structure", "Structure for view", "Data for table" }

\* C21. In the artifact of a finished MySQL backup the fragment list stored
\* for every table backed up is still under the name of the table: it holds
\* fragments of the table loop only, and the structure of the table when
\* structure is asked for; the 'permissions' and 'footer' entries replace
\* the list of no table, whatever the tables are named.
C21_ReservedKeysKeepTableFragments ==
    (b_pc = "done" /\ db_type = "mysql") =>
        \A j \in 1..Len(all_tables) :
            LET table == all_tables[j]
            IN  /\ table \in Range(backup_data.keys)
                /\ \A k \in 1..Len(backup_data.vals[table]) :
                      backup_data.vals[table][k].marker \in TableMarkers
                /\ WantsStructure =>
                      \E k \in 1..Len(backup_data.vals[table]) :
                          backup_data.vals[table][k] = StructureFragment(table)

\* ============================================== claims: backup and restore

\* C15. In both families every fault of the driver reaches the caller as a
\* domain error (the connection error, BackupError or RestoreError): no raw
\* driver exception leaves the backup or the restore component.
C15_DriverFaultsWrapped ==
    /\ b_raised # "DriverError"
    /\ raised # "DriverError"

\* C16. Every backup and every restore invocation ends with its connection
\* closed, on a normal return and on a failure alike: once the invocation
\* is over no connection it opened is still open.
C16_ConnectionClosedOnEveryExit ==
    /\ b_pc \in { "done", "raised" } => b_conn # "open"
    /\ r_pc \in { "done", "raised" } => conn.state # "open"

\* C20. A BackupManager built with a db_type other than 'mysql' and
\* 'postgres' raises ConfigError at construction, so no backup is attempted
\* on a manager without a backup instance; restore_data with such a db_type
\* fails before any connection is opened.
C20_UnsupportedTypeRejected ==
    db_type \notin { "mysql", "postgres" } =>
        /\ b_pc \notin { "idle", "init" } =>
              b_pc = "raised" /\ b_raised = "ConfigError"
        /\ r_pc \notin { "idle", "start" } =>
              /\ r_pc = "raised" /\ raised = "ValueError"
              /\ \A j \in 1..Len(log) : log[j].op # "connect"

\* ======================================================== claims: encoder

RECURSIVE Undouble(_)
\* Each '' of the text replaced by ', from the left.
Undouble(text) ==
    IF text = <<>> THEN <<>>
    ELSE IF Len(text) >= 2 /\ text[1] = "'" /\ text[2] = "'"
    THEN << "'" >> \o Undouble(SubSeq(text, 3, Len(text)))
    ELSE << text[1] >> \o Undouble(Tail(text))

\* A literal parsed back: the outer quotes stripped, the doubled undoubled.
ParseLiteral(lit) == Undouble(SubSeq(lit, 2, Len(lit) - 1))

\* The number of single quotes in the text.
Quotes(text) == Cardinality({ j \in 1..Len(text) : text[j] = "'" })

\* C17. For every str value the literal of either family is the value
\* between single quotes with each embedded quote doubled, and parsing the
\* literal back gives the value; O'Brien encodes to 'O''Brien'.
C17_QuoteDoublingRoundTrip ==
    (e_pc = "encoded" /\ value.type = "str") =>
        /\ Len(literal) = Len(value.text) + Quotes(value.text) + 2
        /\ literal[1] = "'" /\ literal[Len(literal)] = "'"
        /\ Quotes(literal) = 2 * Quotes(value.text) + 2
        /\ ParseLiteral(literal) = value.text
        /\ value.text = OBrien =>
              literal = << "'", "O", "'", "'", "B", "r", "i", "e", "n", "'" >>

\* C17 happens: O'Brien has been encoded by the MySQL family, and a value
\* of nothing but quotes by the Postgres family.
C17_Witness ==
    /\ e_pc = "encoded"
    /\ value.type = "str"
    /\ \/ db_type = "mysql" /\ value.text = OBrien
       \/ db_type = "postgres" /\ value.text = << "'", "'" >>

\* C18. The Postgres encoder tells a date from a timestamp: a date object
\* is encoded as 'YYYY-MM-DD', a datetime object as 'YYYY-MM-DD HH:MM:SS',
\* with its time of day in the literal.
C18_PostgresTimestampKeepsTime ==
    (e_pc = "encoded" /\ db_type = "postgres") =>
        /\ value.type = "date" => literal = << "'", value.date, "'" >>
        /\ value.type = "datetime" =>
              literal = << "'", value.date, " ", value.time, "'" >>

\* ======================================================= claims: restore

\* The entries of the log that belong to the running invocation.
RunLog ==
    LET Mine(e) == e.rerun = rerun IN SelectSeq(log, Mine)

\* The entries of the log that belong to the first of two invocations.
FirstRunLog ==
    LET First(e) == ~e.rerun IN SelectSeq(log, First)

\* The script statements sent to the connection, among the entries L.
Executed(L) ==
    LET IsExecute(e) == e.op = "execute" IN SelectSeq(L, IsExecute)

\* The texts of the statements of L.
Texts(L) == [ j \in 1..Len(L) |-> L[j].stmt ]

IsPrefix(s, t) == Len(s) <= Len(t) /\ s = SubSeq(t, 1, Len(s))

\* Whether some entry of L has the operation op.
HasOp(L, op) == \E j \in 1..Len(L) : L[j].op = op

\* read_sql_commands_from_file has returned in the running invocation.
Loaded == r_i >= 1

\* C3. In both families, once one statement of the script fails no later
\* statement is sent: among the statements sent only the last can have
\* failed, they were sent in script order, and no statement before the last
\* one sent was left out unless it strips to nothing.
C3_AbortAtFirstFailure ==
    LET ex == Executed(RunLog)
    IN  /\ \A j \in 1..(Len(ex) - 1) : ex[j].ok /\ ex[j].idx < ex[j + 1].idx
        /\ \A j \in 1..Len(ex) :
              \A i \in 1..ex[j].idx :
                 \/ \E k \in 1..j : ex[k].idx = i
                 \/ Strip(sql_commands[i]) = <<>>
        /\ (ex # <<>> /\ ~ex[Len(ex)].ok) =>
              /\ r_pc = "raised"
              /\ raised \in { "RestoreError", "DriverError" }

\* C3 happens: a statement failed after another had succeeded, with a
\* statement of the script still to come.
C3_Witness ==
    LET ex == Executed(RunLog)
    IN  /\ Len(ex) >= 2
        /\ ~ex[Len(ex)].ok
        /\ ex[Len(ex)].idx < Len(sql_commands)
        /\ Strip(sql_commands[Len(sql_commands)]) # <<>>

\* C4. In a MySQL restore commit is called at most once, after every
\* statement of the script that does not strip to nothing has been executed
\* without a failure, never when a statement failed, and nothing but the
\* closing of the cursor and of the connection follows it.
C4_CommitOnceAtEnd ==
    db_type = "mysql" =>
        LET L == RunLog
            ex == Executed(L)
            NonBlank(c) == Strip(c) # <<>>
        IN  /\ Cardinality({ j \in 1..Len(L) : L[j].op = "commit" }) <= 1
            /\ \A j \in 1..Len(L) :
                  L[j].op = "commit" =>
                     /\ \A k \in 1..Len(ex) : ex[k].ok
                     /\ Texts(ex) = SelectSeq(sql_commands, NonBlank)
                     /\ Len(L) = j + 2
                     /\ L[j + 1].op = "cursor_close"
                     /\ L[j + 2].op = "close"
                     /\ conn.state = "closed"
                     /\ pending = <<>>
            /\ (\E k \in 1..Len(ex) : ~ex[k].ok) => ~HasOp(L, "commit")
            /\ conn.state = "closed" => HasOp(L, "commit")

\* C4 happens: a first MySQL restore failed at a statement and committed
\* nothing, a second one executed two statements and committed.
C4_Witness ==
    /\ db_type = "mysql"
    /\ rerun
    /\ r_pc = "done"
    /\ \E j \in 1..Len(FirstRunLog) :
          FirstRunLog[j].op = "execute" /\ ~FirstRunLog[j].ok
    /\ ~HasOp(FirstRunLog, "commit")
    /\ Len(Executed(RunLog)) >= 2
    /\ HasOp(RunLog, "commit")

\* C5. In a Postgres restore the connection the script runs on is in
\* autocommit mode, so the target database holds exactly the statements
\* that executed without a fault, at every moment: when statement k fails
\* the statements before it are durable, and nothing is rolled back.
C5_PostgresPartialDurable ==
    db_type = "postgres" =>
        LET Done(e) == e.op = "execute" /\ e.ok
        IN  /\ r_pc \in { "read", "restore", "close" } =>
                  conn.state = "open" /\ conn.autocommit
            /\ durable = Texts(SelectSeq(log, Done))
            /\ pending = <<>>

\* C5 happens: a Postgres restore failed at its third statement or later,
\* and the statements before it are in the target database.
C5_Witness ==
    LET ex == Executed(RunLog)
    IN  /\ db_type = "postgres"
        /\ ~rerun
        /\ raised = "DriverError"
        /\ Len(ex) >= 3
        /\ ~ex[Len(ex)].ok
        /\ Len(durable) = Len(ex) - 1

\* C6. CREATE DATABASE is issued only when the target database does not
\* exist: it never meets a database of that name (no duplicate-database
\* fault), at most one is issued per invocation, and a second invocation,
\* after a first one that came past create_database_if_not_exists, issues
\* none.
C6_CreateOnlyWhenAbsent ==
    LET L == RunLog
        creates == { j \in 1..Len(L) : L[j].op = "create_database" }
    IN  /\ \A j \in creates : L[j].ok
        /\ Cardinality(creates) <= 1
        /\ (rerun /\ (HasOp(FirstRunLog, "select_db")
                        \/ HasOp(FirstRunLog, "close"))) => creates = {}

\* C6 happens: the first invocation created the database, the second one
\* looked it up, created nothing and went on to the script.
C6_Witness ==
    /\ rerun
    /\ \E j \in 1..Len(FirstRunLog) :
          FirstRunLog[j].op = "create_database" /\ FirstRunLog[j].ok
    /\ HasOp(RunLog, "lookup")
    /\ ~HasOp(RunLog, "create_database")
    /\ r_pc = "restore"

\* C7. Reading a script file in which each of the statements s1..sn
\* (n >= 1, none holding the terminator) is followed by the terminator
\* yields exactly the list s1..sn.
C7_TerminatedScriptRoundTrip ==
    (Loaded /\ terminated) => sql_commands = script

\* C7 happens: a file of three terminated statements, two of them
\* different, has been read.
C7_Witness ==
    /\ Loaded
    /\ terminated
    /\ Len(script) = 3
    /\ script[1] = <<"a">>
    /\ script[2] = <<"b">>
    /\ sql_commands = script

\* C8 as claimed: the loader discards nothing but one trailing empty
\* fragment, so that every other fragment of the text is in the list it
\* returns.
C8_OnlyTrailingEmptyDropped ==
    Loaded =>
        LET f == Split(file_text)
        IN  sql_commands = IF f[Len(f)] = <<>> THEN DropLast(f) ELSE f

\* C9 as claimed: in both families the statements sent are the fragments
\* of the split script that do not strip to nothing, in split order.
C9_OnlyNonBlankSent ==
    LET sent == Texts(Executed(RunLog))
        NonBlank(c) == Strip(c) # <<>>
        expected == SelectSeq(sql_commands, NonBlank)
    IN  /\ IsPrefix(sent, expected)
        /\ r_pc \in { "close", "done" } => sent = expected

\* The state of the restore state machine, read off the handler.
RestoreState ==
    CASE r_pc \in { "start", "mysql_connect", "mysql_ensure", "pg_connect",
                    "pg_exists", "pg_ensure" } -> "Disconnected"
      [] r_pc \in { "mysql_select_db", "pg_close_admin", "pg_connect_target" }
            -> "DatabaseEnsured"
      [] r_pc = "read" -> "Connected"
      [] r_pc \in { "restore", "close" } -> "Replaying"
      [] r_pc = "done" -> "Closed"
      [] OTHER -> "Aborted"

\* The steps of the state machine: forward by one, or out by an exception.
RestoreStateSteps ==
    { << "Disconnected", "DatabaseEnsured" >>, << "DatabaseEnsured", "Connected" >>,
      << "Connected", "Replaying" >>, << "Replaying", "Closed" >> }
    \cup { << s, "Aborted" >> :
             s \in { "Disconnected", "DatabaseEnsured", "Connected", "Replaying" } }

\* C10. A restore invocation goes through Disconnected, DatabaseEnsured,
\* Connected, Replaying, Closed in that order, one state at a time, and
\* leaves the order only by an exception; a script statement is sent only
\* in Replaying, on an open connection switched to the target database,
\* which exists by then.
C10_RestoreStateMachine ==
    [][ /\ \/ RestoreState' = RestoreState
           \/ << RestoreState, RestoreState' >> \in RestoreStateSteps
           \/ rerun' # rerun /\ RestoreState' = "Disconnected"
        /\ (Len(log') > Len(log) /\ log'[Len(log')].op = "execute") =>
              /\ RestoreState = "Replaying"
              /\ conn.state = "open"
              /\ conn.db = db_name
              /\ db_name \in databases
              /\ HasOp(RunLog, "lookup")
        /\ RestoreState' \in { "DatabaseEnsured", "Connected", "Replaying" } =>
              HasOp(RunLog', "lookup")
        /\ RestoreState' \in { "Connected", "Replaying" } =>
              conn'.state = "open" /\ conn'.db = db_name
        /\ RestoreState' = "Closed" => conn'.state = "closed"
      ]_vars

\* C10 happens: an invocation that created the database and sent two
\* statements has closed its connection.
C10_Witness ==
    /\ RestoreState = "Closed"
    /\ HasOp(RunLog, "create_database")
    /\ Len(Executed(RunLog)) >= 2
    /\ conn.state = "closed"

====
